---- MODULE Spec2Model ----
(***************************************************************************)
(* runfast: runner resolution and the directory-keyed runner cache.        *)
(*                                                                         *)
(* The model follows src/src/main.rs (RunnerCache, main,                   *)
(* select_new_runner) and src/src/runner.rs (Runner, load_runners,         *)
(* get_runners_from_config, generate_default_config).                      *)
(*                                                                         *)
(* Rust values are represented as follows.                                 *)
(*   Option<T>          a sequence of length <= 1: <<>> is None, <<x>> is  *)
(*                      Some(x)                                            *)
(*   Vec<T>             a sequence                                         *)
(*   HashMap<K, V>      a set of entries [key |-> k, val |-> v]; the map   *)
(*                      operations keep the keys of a map distinct         *)
(*   a file             a record [kind, body]: kind is "absent", "text"    *)
(*                      (UTF-8 text whose TOML tables are body),           *)
(*                      "garbage" (UTF-8 text that is no TOML of the       *)
(*                      expected shape), "truncated" (what a failed write  *)
(*                      leaves) or "binary" (not UTF-8: read_to_string     *)
(*                      fails)                                             *)
(*   a panic            the process stops at pc = "panicked"               *)
(*                                                                         *)
(* The home directory and the current directory resolve: the unwraps of    *)
(* BaseDirs::new() and std::env::current_dir() succeed. What the file      *)
(* system and the selector answer is drawn from every outcome they have.   *)
(*                                                                         *)
(* The properties about a run of main presuppose what the orchestrator is  *)
(* given: a cache state (load returned) and, where a selection is made, a  *)
(* candidate list (load_runners returned). A run that panicked before has  *)
(* pc = "panicked" and is told apart by the properties about failures.     *)
(***************************************************************************)
EXTENDS Naturals, Sequences, FiniteSets

VARIABLES
    cacheFile,      \* ~/.cache/runfast-cache.toml
    defaultsFile,   \* ~/.config/runfast/defaults.toml
    userFile,       \* ~/.config/runfast/runners.toml
    pc,             \* pc[p]: where process p stands in main
    force,          \* force[p]: cli.force_choose_new
    cwd,            \* cwd[p]: std::env::current_dir()
    cache,          \* cache[p]: Option<RunnerCache>, the local of main
    chosen,         \* chosen[p]: Option<Runner>, the local of main
    runners,        \* runners[p]: the candidate list of select_new_runner
    out,            \* out[p]: the messages printed in this run
    hist,           \* hist[p]: what this run has done so far (history)
    prev            \* prev[p]: what the previous run of p did (history)

vars == <<cacheFile, defaultsFile, userFile, pc, force, cwd, cache, chosen,
          runners, out, hist, prev>>

files == <<cacheFile, defaultsFile, userFile>>

----------------------------------------------------------------------------
(* Bounds of the model.                                                    *)

\* Successive invocations of runfast by one process identity.
MaxRuns == 2

\* Longest user and defaults source drawn in the merge specification.
MaxUser == 2

MaxDefaults == 3

----------------------------------------------------------------------------
(* Option<T>                                                               *)

None == <<>>

Some(x) == <<x>>

is_some(o) == o # <<>>

unwrap(o) == o[1]

----------------------------------------------------------------------------
(* Runner and RunnerConfig (runner.rs)                                     *)

MkRunner(n, c, q) == [name |-> n, cmd |-> c, quit_fast |-> q]

MkConf(n, c, q) == [name |-> n, cmd |-> c, quit_fast |-> q]

new_from_config_no_defaults(conf) ==
    [name |-> IF is_some(conf.name) THEN unwrap(conf.name) ELSE "",
     cmd |-> IF is_some(conf.cmd) THEN unwrap(conf.cmd) ELSE "",
     quit_fast |-> IF is_some(conf.quit_fast) THEN unwrap(conf.quit_fast)
                   ELSE TRUE]

\* Runner::new_from_config: blanks are filled with the fixed defaults.
new_from_config(conf) ==
    [name |-> IF is_some(conf.name) THEN unwrap(conf.name)
              ELSE "Default Runner Name",
     cmd |-> IF is_some(conf.cmd) THEN unwrap(conf.cmd)
             ELSE "echo 'command not set'",
     quit_fast |-> IF is_some(conf.quit_fast) THEN unwrap(conf.quit_fast)
                   ELSE FALSE]

\* get_runners_from_config: conf is Option<Config>, Config.runners is
\* Option<Vec<RunnerConfig>>; every entry is resolved, in order.
get_runners_from_config(conf) ==
    IF is_some(conf) /\ is_some(unwrap(conf).runners)
    THEN [i \in 1..Len(unwrap(unwrap(conf).runners)) |->
            new_from_config(unwrap(unwrap(conf).runners)[i])]
    ELSE <<>>

already_exists(rs, dr) == \E i \in 1..Len(rs) : dr.name = rs[i].name

RECURSIVE merge_user_only(_, _, _)
merge_user_only(user, rs, default_runners) ==
    IF default_runners = <<>> THEN rs
    ELSE LET dr == default_runners[Len(default_runners)]
             rest == SubSeq(default_runners, 1, Len(default_runners) - 1)
         IN  merge_user_only(user,
                 IF already_exists(user, dr) THEN rs ELSE Append(rs, dr),
                 rest)

merge_against_user(rs, default_runners) ==
    merge_user_only(rs, rs, default_runners)

\* The loop of load_runners: pop the default runners from the end, push each
\* one whose name is not yet in the list (user runners and the defaults
\* pushed before it).
RECURSIVE merge(_, _)
merge(rs, default_runners) ==
    IF default_runners = <<>> THEN rs
    ELSE LET dr == default_runners[Len(default_runners)]
             rest == SubSeq(default_runners, 1, Len(default_runners) - 1)
         IN  merge(IF already_exists(rs, dr) THEN rs ELSE Append(rs, dr),
                   rest)

----------------------------------------------------------------------------
(* Files and TOML                                                          *)

Absent == [kind |-> "absent", body |-> <<>>]

Text(b) == [kind |-> "text", body |-> b]

Garbage == [kind |-> "garbage", body |-> <<>>]

Truncated == [kind |-> "truncated", body |-> <<>>]

Binary == [kind |-> "binary", body |-> <<>>]

exists(f) == f.kind # "absent"

\* std::fs::read_to_string: Ok for UTF-8 text, Err otherwise.
read_ok(f) == f.kind \in {"text", "garbage", "truncated"}

config_parse_lenient(f) == f.kind \in {"text", "garbage", "truncated"}

\* toml::from_str::<Config>: the [[runners]] tables of a text file. A text
\* file without any is Config { runners: None }.
config_parse_ok(f) == f.kind = "text"

config_from_str(f) == [runners |-> f.body]

Entry(k, v) == [key |-> k, val |-> v]

keys(m) == {e.key : e \in m}

distinct_keys(tables) ==
    \A i, j \in 1..Len(tables) : tables[i].key = tables[j].key => i = j

\* toml::from_str::<RunnerCache>: the [runners."<dir>"] tables of the file;
\* a table defined twice is a TOML error.
cache_parse_ok(f) == f.kind = "text" /\ distinct_keys(f.body)

cache_from_str_first_table(f) ==
    IF f.body = <<>> THEN {} ELSE {f.body[1]}

cache_from_str(f) == {f.body[i] : i \in 1..Len(f.body)}

\* The directories whose path is valid UTF-8 (serde serializes a PathBuf
\* only then).
NonUtf8Dir == "/nonutf8"

is_utf8(d) == d # NonUtf8Dir

\* toml::to_string(&RunnerCache)
serialize_ok(m) == \A k \in keys(m) : is_utf8(k)

serializations_one_table(m) == {<<e>> : e \in m}

\* The texts toml::to_string can produce: one table per entry, in the
\* HashMap's iteration order, which is unspecified.
serializations(m) ==
    {s \in [1..Cardinality(m) -> m] : \A e \in m : \E i \in DOMAIN s : s[i] = e}

----------------------------------------------------------------------------
(* HashMap<PathBuf, Runner>                                                *)

\* HashMap::get
get(m, k) ==
    IF k \in keys(m) THEN Some((CHOOSE e \in m : e.key = k).val) ELSE None

\* HashMap::remove
remove(m, k) == {e \in m : e.key # k}

\* HashMap::insert: the value of an existing key is replaced.
insert(m, k, v) == {e \in m : e.key # k} \cup {Entry(k, v)}

\* RunnerCache::try_get_runner: exact lookup of the current directory.
try_get_runner(m, dir) == get(m, dir)

add_runner_append(m, dir, runner) == m \cup {Entry(dir, runner)}

add_runner_reloading(m, dir, runner) ==
    insert(IF cache_parse_ok(cacheFile) THEN cache_from_str(cacheFile) ELSE m,
           dir, runner)

add_runner_keep(m, dir, runner) ==
    IF dir \in keys(m) THEN m ELSE insert(m, dir, runner)

\* RunnerCache::add_runner, the in-memory part (main.rs 59-63).
add_runner_map(m, dir, runner) ==
    insert(IF dir \in keys(m) THEN remove(m, dir) ELSE m, dir, runner)

----------------------------------------------------------------------------
(* The values the model draws from                                         *)

Dirs == {"/proj", "/other", NonUtf8Dir}

\* src/defaults.toml, the baseline written by generate_default_config.
BuiltinDefaults ==
    << MkConf(Some("rust"), Some("cargo run"), None),
       MkConf(Some("rust test"), Some("cargo test"), None),
       MkConf(Some("haskell"), Some("stack run"), Some(TRUE)) >>

UserOverrides ==
    << MkConf(Some("rust"), Some("cargo run --release"), Some(TRUE)),
       MkConf(None, Some("make"), None) >>

UserRepeats ==
    << MkConf(Some("rust"), Some("cargo run -q"), None),
       MkConf(Some("rust"), Some("cargo build"), Some(TRUE)) >>

\* The (defaults.toml, runners.toml) pairs a run may find.
ConfigFiles0 ==
    { <<Absent, Absent>>,
      <<Text(Some(BuiltinDefaults)), Text(Some(UserOverrides))>>,
      <<Text(Some(BuiltinDefaults)), Text(Some(UserRepeats))>>,
      <<Text(None), Absent>>,
      <<Garbage, Absent>>,
      <<Text(Some(BuiltinDefaults)), Garbage>>,
      <<Text(Some(BuiltinDefaults)), Binary>> }

StaleHaskell == MkRunner("haskell", "runhaskell Main.hs", TRUE)

OldRust == MkRunner("rust", "cargo run", FALSE)

\* The cache files a run may find.
CacheFiles0 ==
    { Absent,
      Text(<<>>),
      Text(<<Entry("/proj", StaleHaskell)>>),
      Text(<<Entry("/other", OldRust), Entry("/proj", StaleHaskell)>>),
      Text(<<Entry("/proj", OldRust), Entry("/proj", StaleHaskell)>>),
      Garbage,
      Binary }

----------------------------------------------------------------------------
(* History: what a run has done. Nothing in the program reads it.          *)

\* file0: the cache file when the run started; conf0: the two configuration
\* files then; loaded: the map load returned; key: the name the selector
\* returned; events: the run's steps, in order; loadedAt, wroteAt: when,
\* among the steps of all running instances, this run read and wrote the
\* cache file (0: not yet).
StartHist(f) ==
    [file0 |-> f, conf0 |-> <<defaultsFile, userFile>>, loaded |-> None,
     key |-> None, events |-> <<>>, loadedAt |-> 0, wroteAt |-> 0]

Max(S) == CHOOSE x \in S : \A y \in S : y <= x

\* The next instant of the order of file accesses.
Tick ==
    1 + Max({hist[q].loadedAt : q \in DOMAIN hist}
            \cup {hist[q].wroteAt : q \in DOMAIN hist})

index_of(evs, e) == CHOOSE i \in 1..Len(evs) : evs[i] = e

Log(h, evs) == [h EXCEPT !.events = h.events \o evs]

count(evs, e) == Cardinality({i \in 1..Len(evs) : evs[i] = e})

happened(p, e) == \E i \in 1..Len(hist[p].events) : hist[p].events[i] = e

NoPrev == [runs |-> 0, saved |-> None]

----------------------------------------------------------------------------
(* Initial states                                                          *)

InitProc(P) ==
    /\ pc = [p \in P |-> "load"]
    /\ force \in [P -> BOOLEAN]
    /\ cwd \in [P -> Dirs]
    /\ cache = [p \in P |-> None]
    /\ chosen = [p \in P |-> None]
    /\ runners = [p \in P |-> <<>>]
    /\ out = [p \in P |-> {}]
    /\ hist = [p \in P |-> StartHist(cacheFile)]
    /\ prev = [p \in P |-> NoPrev]

Init ==
    /\ cacheFile \in CacheFiles0
    /\ \E c \in ConfigFiles0 : defaultsFile = c[1] /\ userFile = c[2]
    /\ InitProc({1})

----------------------------------------------------------------------------
(* main, step by step                                                      *)

Panic(p) == pc' = [pc EXCEPT ![p] = "panicked"]

Goto(p, l) == pc' = [pc EXCEPT ![p] = l]

Say(p, msgs) == out' = [out EXCEPT ![p] = @ \cup msgs]

load_blank_on_error(f) ==
    IF exists(f) /\ cache_parse_ok(f) THEN Some(cache_from_str(f))
    ELSE Some({})

\* What RunnerCache::load returns for a cache file it could read
\* (main.rs 32-48): an empty cache when there is no file, the parsed cache,
\* or None when the text does not parse.
load_result(f) ==
    IF ~exists(f) THEN Some({})
    ELSE IF cache_parse_ok(f) THEN Some(cache_from_str(f))
    ELSE None

\* RunnerCache::load (main.rs 26-49), called at main.rs 88. The unwrap of
\* read_to_string (main.rs 36) panics on a file that is not UTF-8 text.
Load(p) ==
    /\ pc[p] = "load"
    /\ UNCHANGED <<files, force, cwd, chosen, runners, prev>>
    /\ IF exists(cacheFile) /\ ~read_ok(cacheFile)
       THEN /\ Panic(p)
            /\ UNCHANGED <<cache, hist, out>>
       ELSE /\ cache' = [cache EXCEPT ![p] = load_result(cacheFile)]
            /\ hist' = [hist EXCEPT ![p] =
                            [Log(@, <<"load">>) EXCEPT
                                !.loaded = load_result(cacheFile),
                                !.loadedAt = Tick]]
            /\ IF exists(cacheFile) /\ ~cache_parse_ok(cacheFile)
               THEN Say(p, {"Could Not Parse Cache"})
               ELSE UNCHANGED out
            /\ Goto(p, "branch")

cache_hit_when_forced(p) ==
    /\ force[p]
    /\ is_some(cache[p])
    /\ is_some(try_get_runner(unwrap(cache[p]), cwd[p]))

cache_hit_never(p) == FALSE

\* Whether main answers from the cache (main.rs 93, 105-107).
cache_hit(p) ==
    /\ ~force[p]
    /\ is_some(cache[p])
    /\ is_some(try_get_runner(unwrap(cache[p]), cwd[p]))

\* The branch of main.rs 93-117 up to the call of select_new_runner.
Branch(p) ==
    /\ pc[p] = "branch"
    /\ UNCHANGED <<files, force, cwd, cache, runners, out, hist, prev>>
    /\ IF cache_hit(p)
       THEN /\ chosen' = [chosen EXCEPT ![p] =
                              try_get_runner(unwrap(cache[p]), cwd[p])]
            /\ Goto(p, "run")
       ELSE /\ Goto(p, "load_runners")
            /\ UNCHANGED chosen

\* What generate_default_config (runner.rs 162-181) can leave and whether it
\* returns: the directory or the file cannot be created (panic, nothing
\* written), write_all fails (panic, an empty or partial file is left), or
\* the baseline is written.
GenerateOutcomes ==
    { [ok |-> FALSE, file |-> Absent],
      [ok |-> FALSE, file |-> Text(None)],
      [ok |-> FALSE, file |-> Truncated],
      [ok |-> TRUE, file |-> Text(Some(BuiltinDefaults))] }

load_runners_result(dfile, ufile) ==
    merge(get_runners_from_config(
              IF exists(ufile) THEN Some(config_from_str(ufile)) ELSE None),
          get_runners_from_config(Some(config_from_str(dfile))))

\* runner::load_runners (runner.rs 99-146), called at main.rs 131.
LoadRunners(p) ==
    /\ pc[p] = "load_runners"
    /\ UNCHANGED <<cacheFile, userFile, force, cwd, cache, chosen, prev>>
    /\ \E g \in GenerateOutcomes :
         LET created == ~exists(defaultsFile)
             dfile == IF created THEN g.file ELSE defaultsFile
             d_read == (~created \/ g.ok)
             unread == (d_read /\ ~read_ok(dfile))
                       \/ (d_read /\ read_ok(dfile) /\ config_parse_ok(dfile)
                           /\ exists(userFile) /\ ~read_ok(userFile))
             d_ok == d_read /\ read_ok(dfile) /\ config_parse_ok(dfile)
             u_read == d_ok /\ exists(userFile)
             u_ok == d_ok /\ (exists(userFile) =>
                                read_ok(userFile) /\ config_parse_ok(userFile))
             evs == (IF created THEN <<"create_defaults">> ELSE <<>>)
                    \o (IF d_read THEN <<"read_defaults">> ELSE <<>>)
                    \o (IF u_read THEN <<"read_user">> ELSE <<>>)
         IN  /\ (~created => g.ok)
             /\ defaultsFile' = dfile
             /\ hist' = [hist EXCEPT ![p] = Log(@, evs)]
             /\ IF u_ok
                THEN /\ runners' = [runners EXCEPT ![p] =
                                      load_runners_result(dfile, userFile)]
                     /\ Goto(p, "skim")
                     /\ UNCHANGED out
                ELSE /\ Panic(p)
                     /\ Say(p, {IF ~d_read
                                THEN "No default config could be created, panicing"
                                ELSE IF unread
                                THEN "called Result::unwrap() on an Err value"
                                ELSE IF ~d_ok
                                THEN "Could not parse default config"
                                ELSE "Could not parse user config"})
                     /\ UNCHANGED runners

find_runner_front(rs, key) == IF rs = <<>> THEN None ELSE Some(rs[1])

\* The last runner of rs named key (the loop of main.rs 168-173 overwrites
\* chosen_runner at every match).
find_runner(rs, key) ==
    LET hits == {i \in 1..Len(rs) : rs[i].name = key}
    IN  IF hits = {} THEN None
        ELSE Some(rs[CHOOSE i \in hits : \A j \in hits : j <= i])

\* What Skim::run_with can return (main.rs 148-166): None, an abort, or an
\* accept with the selected items (at most one: multi-selection is off; none
\* when the query matches no item).
SkimOutcomes(rs) ==
    { [kind |-> "none", item |-> 0], [kind |-> "abort", item |-> 0],
      [kind |-> "accept", item |-> 0] }
    \cup { [kind |-> "accept", item |-> i] : i \in 1..Len(rs) }

\* result.selected_items[0].output() (main.rs 166): the item's text, which
\* is the runner's name (runner.rs 58-60).
output(rs, o) == rs[o.item].name

select_result_despite_abort(rs, o) ==
    IF o.kind = "none" \/ rs = <<>> THEN None
    ELSE find_runner(rs, rs[IF o.item = 0 THEN 1 ELSE o.item].name)

\* What select_new_runner returns for the outcome o of the selector
\* (main.rs 150-175).
select_result(rs, o) ==
    IF o.kind \in {"none", "abort"} THEN None
    ELSE find_runner(rs, output(rs, o))

after_select_run_first == "run"

\* Where main goes on when select_new_runner has returned: to the store of
\* main.rs 95-103 and 110-113, which comes before the run of main.rs 121-124.
after_select == "store"

\* The rest of select_new_runner (main.rs 133-176): the selector runs on the
\* candidates; an accept without exactly one item is the unreachable!() of
\* main.rs 162-164.
Skim(p) ==
    /\ pc[p] = "skim"
    /\ UNCHANGED <<files, force, cwd, cache, runners, prev>>
    /\ \E o \in SkimOutcomes(runners[p]) :
         IF o.kind = "accept" /\ o.item = 0
         THEN /\ Panic(p)
              /\ hist' = [hist EXCEPT ![p] = Log(@, <<"select">>)]
              /\ UNCHANGED <<chosen, out>>
         ELSE /\ chosen' = [chosen EXCEPT ![p] = select_result(runners[p], o)]
              /\ hist' = [hist EXCEPT ![p] =
                              [Log(@, <<"select">>) EXCEPT !.key =
                                  IF o.kind = "accept"
                                  THEN Some(output(runners[p], o)) ELSE None]]
              /\ Say(p, IF o.kind = "none" THEN {"internal runquick error :("}
                        ELSE IF o.kind = "abort" THEN {"Nothing Selected..."}
                        ELSE {})
              /\ Goto(p, after_select)

\* What std::fs::write (main.rs 78) can do with the text s: write it, fail
\* before touching the file, or fail after truncating it, leaving nothing
\* parsable or the first tables of s.
WriteOutcomes(old, s) ==
    { [ok |-> TRUE, file |-> Text(s)],
      [ok |-> FALSE, file |-> old],
      [ok |-> FALSE, file |-> Truncated] }
    \cup { [ok |-> FALSE, file |-> Text(SubSeq(s, 1, k))] : k \in 1..(Len(s) - 1) }

after_add_unwrapped(ok) == IF ok THEN "run" ELSE "panicked"

\* Where main goes on when add_runner has returned: a serialization or write
\* error is printed and add_runner returns like a success (main.rs 65-81).
after_add(ok) == "run"

\* RunnerCache::add_runner (main.rs 58-82) on the cache of p.
AddRunner(p) ==
    LET m == add_runner_map(unwrap(cache[p]), cwd[p], unwrap(chosen[p]))
    IN  /\ cache' = [cache EXCEPT ![p] = Some(m)]
        /\ IF ~serialize_ok(m)
           THEN /\ Say(p, {"Could not serialise new cache data to toml"})
                /\ hist' = [hist EXCEPT ![p] =
                                Log(@, <<"insert", "serialize_err">>)]
                /\ Goto(p, after_add(FALSE))
                /\ UNCHANGED cacheFile
           ELSE \E s \in serializations(m) :
                \E w \in WriteOutcomes(cacheFile, s) :
                    /\ cacheFile' = w.file
                    /\ Goto(p, after_add(w.ok))
                    /\ IF w.ok
                       THEN /\ hist' = [hist EXCEPT ![p] =
                                          [Log(@, <<"insert", "write_ok">>)
                                              EXCEPT !.wroteAt = Tick]]
                            /\ UNCHANGED out
                       ELSE /\ hist' = [hist EXCEPT ![p] =
                                          [Log(@, <<"insert", "write_err">>)
                                              EXCEPT !.wroteAt = Tick]]
                            /\ Say(p, {"Could not write toml to disk"})

\* Whether main hands the selection to add_runner (main.rs 95-96, 110-111).
stores(p) == is_some(chosen[p]) /\ is_some(cache[p])

\* main after select_new_runner returned (main.rs 95-103, 110-113, 116).
Store(p) ==
    /\ pc[p] = "store"
    /\ UNCHANGED <<defaultsFile, userFile, force, cwd, chosen, runners, prev>>
    /\ IF stores(p)
       THEN AddRunner(p)
       ELSE /\ IF force[p] /\ is_some(chosen[p])
               THEN Say(p, {"Could not parse cache, intentionally not overwriting"})
               ELSE UNCHANGED out
            /\ Goto(p, "run")
            /\ UNCHANGED <<cacheFile, cache, hist>>

\* main.rs 121-124 and Runner::run (runner.rs 42-49): the command is spawned
\* and waited for; a spawn failure is printed.
Run(p) ==
    /\ pc[p] = "run"
    /\ UNCHANGED <<files, force, cwd, cache, chosen, runners, prev>>
    /\ IF is_some(chosen[p])
       THEN \E spawned \in BOOLEAN :
              /\ hist' = [hist EXCEPT ![p] =
                            Log(@, <<IF spawned THEN "spawn_ok" ELSE "spawn_err">>)]
              /\ Say(p, (IF spawned THEN {} ELSE {"Error Running Command"})
                        \cup (IF unwrap(chosen[p]).quit_fast THEN {}
                              ELSE {"Press ENTER to exit..."}))
              /\ Goto(p, IF unwrap(chosen[p]).quit_fast THEN "bye" ELSE "ack")
       ELSE /\ Say(p, {"No Runner Selected"})
            /\ Goto(p, "bye")
            /\ UNCHANGED hist

\* Runner::run, runner.rs 50-53: the extra ENTER when quit_fast is false.
Ack(p) ==
    /\ pc[p] = "ack"
    /\ hist' = [hist EXCEPT ![p] = Log(@, <<"ack">>)]
    /\ Goto(p, "bye")
    /\ UNCHANGED <<files, force, cwd, cache, chosen, runners, out, prev>>

\* main.rs 126.
Bye(p) ==
    /\ pc[p] = "bye"
    /\ Say(p, {"bye!"})
    /\ Goto(p, "done")
    /\ UNCHANGED <<files, force, cwd, cache, chosen, runners, hist, prev>>

\* What a finished run leaves for the history of the next one: the directory
\* and the runner it selected and wrote to the cache file, if it did.
Summary(p) ==
    [runs |-> prev[p].runs + 1,
     saved |-> IF happened(p, "write_ok")
               THEN Some([dir |-> cwd[p], runner |-> unwrap(chosen[p])])
               ELSE None]

\* The user invokes runfast again: Cli::parse (main.rs 86) and a fresh main.
Invoke(p) ==
    /\ pc[p] \in {"done", "panicked"}
    /\ prev[p].runs + 1 < MaxRuns
    /\ prev' = [prev EXCEPT ![p] = Summary(p)]
    /\ \E f \in BOOLEAN : force' = [force EXCEPT ![p] = f]
    /\ \E d \in Dirs : cwd' = [cwd EXCEPT ![p] = d]
    /\ cache' = [cache EXCEPT ![p] = None]
    /\ chosen' = [chosen EXCEPT ![p] = None]
    /\ runners' = [runners EXCEPT ![p] = <<>>]
    /\ out' = [out EXCEPT ![p] = {}]
    /\ hist' = [hist EXCEPT ![p] = StartHist(cacheFile)]
    /\ Goto(p, "load")
    /\ UNCHANGED files

Next ==
    \/ \E p \in DOMAIN pc : Load(p)
    \/ \E p \in DOMAIN pc : Branch(p)
    \/ \E p \in DOMAIN pc : LoadRunners(p)
    \/ \E p \in DOMAIN pc : Skim(p)
    \/ \E p \in DOMAIN pc : Store(p)
    \/ \E p \in DOMAIN pc : Run(p)
    \/ \E p \in DOMAIN pc : Ack(p)
    \/ \E p \in DOMAIN pc : Bye(p)
    \/ \E p \in DOMAIN pc : Invoke(p)

\* One user, one terminal: runs of runfast follow one another.
Spec == Init /\ [][Next]_vars

----------------------------------------------------------------------------
(* Vocabulary of the properties                                            *)

Procs == DOMAIN pc

\* The cache load of this run ended in LoadFailed, Empty or Loaded.
LoadFailed(p) == "Could Not Parse Cache" \in out[p]

Usable(p) == is_some(hist[p].loaded)

\* The loaded cache holds an entry for the current directory.
Hit(p) == Usable(p) /\ cwd[p] \in keys(unwrap(hist[p].loaded))

\* main is past select_new_runner and the store that follows it.
Stored(p) == pc[p] \in {"run", "ack", "bye", "done"}

Executed(p) == happened(p, "spawn_ok") \/ happened(p, "spawn_err")

Wrote(p) ==
    happened(p, "insert") \/ happened(p, "write_ok") \/ happened(p, "write_err")

Range(sq) == {sq[i] : i \in 1..Len(sq)}

----------------------------------------------------------------------------
(* C1: in a run whose cache load ended in LoadFailed, whatever the flag    *)
(* and the selector's outcome, add_runner is never called and the cache    *)
(* file stays the file the run found.                                      *)
C1_LoadFailedNeverWrites ==
    \A p \in Procs :
        LoadFailed(p) =>
            /\ cache[p] = None
            /\ ~Wrote(p)
            /\ cacheFile = hist[p].file0

\* A forced run with an unparsable cache file selected a runner and ended.
C1_Witness ==
    \E p \in Procs :
        /\ LoadFailed(p) /\ force[p] /\ is_some(chosen[p]) /\ pc[p] = "done"
        /\ hist[p].file0.kind = "garbage"

(* C2: without the flag, when the loaded cache has an entry for the        *)
(* current directory, the selector is never invoked, the runner handed to  *)
(* execution is the cached one, and the cache is unchanged in memory and   *)
(* on disk.                                                                *)
C2_HitSkipsSelector ==
    \A p \in Procs :
        (~force[p] /\ Hit(p)) =>
            /\ pc[p] \notin {"load_runners", "skim", "store", "panicked"}
            /\ ~happened(p, "select")
            /\ runners[p] = <<>>
            /\ cache[p] = hist[p].loaded
            /\ cacheFile = hist[p].file0
            /\ (Stored(p) =>
                  chosen[p] = get(unwrap(hist[p].loaded), cwd[p]))

\* A run answered from the cache, spawned the cached command and ended.
C2_Witness ==
    \E p \in Procs :
        /\ ~force[p] /\ Hit(p) /\ pc[p] = "done" /\ happened(p, "spawn_ok")
        /\ chosen[p] = Some(StaleHaskell)

(* C3: with the flag, a run that gets past selection has invoked the       *)
(* selector exactly once, whatever the cache holds for the directory (an   *)
(* entry, none, or LoadFailed), and never more than once; when a runner    *)
(* was selected and the cache is Empty or Loaded, the entry of the         *)
(* directory is the new runner, in memory and in the file once written.    *)
C3_ForcedSelectsAndReplaces ==
    \A p \in Procs :
        force[p] =>
            /\ count(hist[p].events, "select") <= 1
            /\ (pc[p] \in {"store", "run", "ack", "bye", "done"} =>
                  count(hist[p].events, "select") = 1)
            /\ (Stored(p) /\ is_some(chosen[p]) /\ Usable(p) =>
                  /\ get(unwrap(cache[p]), cwd[p]) = chosen[p]
                  /\ Cardinality({e \in unwrap(cache[p]) : e.key = cwd[p]}) = 1
                  /\ (happened(p, "write_ok") =>
                        /\ cache_parse_ok(cacheFile)
                        /\ get(cache_from_str(cacheFile), cwd[p]) = chosen[p]))

\* A forced run replaced the cached runner of its directory by another one.
C3_Witness ==
    \E p \in Procs :
        /\ force[p] /\ Hit(p) /\ pc[p] = "done" /\ happened(p, "write_ok")
        /\ get(unwrap(hist[p].loaded), cwd[p]) # chosen[p]
        /\ get(cache_from_str(cacheFile), cwd[p]) = chosen[p]

(* C4: without the flag, on a miss (no entry, or LoadFailed) a run that    *)
(* gets past selection has invoked the selector; when the user selected    *)
(* name n, the run returns a candidate named n, and if the cache is Empty  *)
(* or Loaded it maps the directory to that whole Runner afterwards (in     *)
(* the file too once written).                                             *)
C4_MissSelectsAndStores ==
    \A p \in Procs :
        (~force[p] /\ ~Hit(p) /\ pc[p] \in {"store", "run", "ack", "bye", "done"}) =>
            /\ count(hist[p].events, "select") = 1
            /\ (is_some(hist[p].key) =>
                  /\ is_some(chosen[p])
                  /\ unwrap(chosen[p]) \in Range(runners[p])
                  /\ unwrap(chosen[p]).name = unwrap(hist[p].key)
                  /\ (Stored(p) /\ Usable(p) =>
                        /\ get(unwrap(cache[p]), cwd[p]) = chosen[p]
                        /\ (happened(p, "write_ok") =>
                              /\ cache_parse_ok(cacheFile)
                              /\ get(cache_from_str(cacheFile), cwd[p])
                                   = chosen[p])))

\* Scenario A: no cache file, the user picks "rust" among the baseline
\* candidates, and the file then maps the directory to the whole Runner.
C4_Witness ==
    \E p \in Procs :
        /\ ~force[p] /\ hist[p].file0 = Absent /\ pc[p] = "done"
        /\ Len(runners[p]) = 3
        /\ hist[p].key = Some("rust")
        /\ cwd[p] = "/proj"
        /\ cacheFile = Text(<<Entry("/proj", MkRunner("rust", "cargo run", FALSE))>>)

(* C5: when the selector reports an abort, with or without the flag, the   *)
(* result is "no runner selected": nothing is executed, and the cache is   *)
(* as it was loaded, in memory and on disk.                                *)
C5_AbortChangesNothing ==
    \A p \in Procs :
        "Nothing Selected..." \in out[p] =>
            /\ chosen[p] = None
            /\ ~Executed(p)
            /\ ~Wrote(p)
            /\ cache[p] = hist[p].loaded
            /\ cacheFile = hist[p].file0
            /\ pc[p] # "panicked"
            /\ (pc[p] \in {"bye", "done"} => "No Runner Selected" \in out[p])

\* A forced run over a cached directory was aborted and ended.
C5_Witness ==
    \E p \in Procs :
        /\ "Nothing Selected..." \in out[p] /\ force[p] /\ Hit(p)
        /\ pc[p] = "done"

(* C6: after a run in directory d that selected runner r with a usable    *)
(* cache and wrote the cache file, the next run in d without the flag      *)
(* loads a usable cache holding r for d, does not invoke the selector and  *)
(* executes r.                                                             *)
C6_NextRunReuses ==
    \A p \in Procs :
        (is_some(prev[p].saved) /\ ~force[p]
            /\ cwd[p] = unwrap(prev[p].saved).dir) =>
            /\ pc[p] \notin {"load_runners", "skim", "store", "panicked"}
            /\ ~happened(p, "select")
            /\ (pc[p] # "load" =>
                  /\ Usable(p)
                  /\ get(unwrap(hist[p].loaded), cwd[p])
                       = Some(unwrap(prev[p].saved).runner))
            /\ (Stored(p) => chosen[p] = Some(unwrap(prev[p].saved).runner))
            /\ (pc[p] = "done" => Executed(p))

\* The second run reused, from a cache of two directories, the runner the
\* first run had selected over the one cached before.
C6_Witness ==
    \E p \in Procs :
        /\ is_some(prev[p].saved) /\ ~force[p]
        /\ cwd[p] = unwrap(prev[p].saved).dir
        /\ pc[p] = "done" /\ happened(p, "spawn_ok")
        /\ unwrap(chosen[p]).name = "rust test"
        /\ Cardinality(unwrap(hist[p].loaded)) = 2

(* C7: a cache never holds two entries for one directory; after            *)
(* add_runner the lookup of the current directory returns the runner just  *)
(* added, whatever the other directories hold, and their entries are the   *)
(* loaded ones; an add over an earlier add for the same directory leaves   *)
(* exactly one entry for it, the later runner.                             *)
C7_AddThenGet ==
    \A p \in Procs :
        is_some(cache[p]) =>
            LET m == unwrap(cache[p])
            IN  /\ \A e1, e2 \in m : e1.key = e2.key => e1 = e2
                /\ (happened(p, "insert") =>
                      /\ try_get_runner(m, cwd[p]) = chosen[p]
                      /\ {e \in m : e.key = cwd[p]}
                           = {Entry(cwd[p], unwrap(chosen[p]))}
                      /\ {e \in m : e.key # cwd[p]}
                           = {e \in unwrap(hist[p].loaded) : e.key # cwd[p]})

\* add(d, r1) in one run, add(d, r2) with r2 # r1 in the next, beside the
\* entry of another directory.
C7_Witness ==
    \E p \in Procs :
        /\ is_some(prev[p].saved) /\ cwd[p] = unwrap(prev[p].saved).dir
        /\ happened(p, "insert")
        /\ chosen[p] # Some(unwrap(prev[p].saved).runner)
        /\ get(unwrap(hist[p].loaded), cwd[p])
             = Some(unwrap(prev[p].saved).runner)
        /\ keys(unwrap(cache[p])) = {"/proj", "/other"}

\* The load of this run panicked.
LoadPanicked(p) == pc[p] = "panicked" /\ ~happened(p, "load")

(* C8: the cache load has exactly three outcomes and never crashes: no     *)
(* file gives the empty cache, a parsable file its mapping, a file that    *)
(* is there and does not parse LoadFailed; add_runner is called only on    *)
(* Empty and Loaded.                                                       *)
C8_LoadThreeOutcomes ==
    \A p \in Procs :
        pc[p] # "load" =>
            LET f == hist[p].file0
            IN  /\ ~LoadPanicked(p)
                /\ (~exists(f) => hist[p].loaded = Some({}) /\ ~LoadFailed(p))
                /\ (exists(f) /\ cache_parse_ok(f) =>
                      hist[p].loaded = Some(cache_from_str(f)) /\ ~LoadFailed(p))
                /\ (exists(f) /\ ~cache_parse_ok(f) =>
                      hist[p].loaded = None /\ LoadFailed(p))
                /\ (Wrote(p) => Usable(p))

\* The first runner of rs named key.
first_named(rs, key) ==
    LET hits == {i \in 1..Len(rs) : rs[i].name = key}
    IN  IF hits = {} THEN None
        ELSE Some(rs[CHOOSE i \in hits : \A j \in hits : i <= j])

(* C11: when the selector returns name n, the chosen Runner is the first   *)
(* candidate, in list order, named n, also when several candidates share   *)
(* the name, and the process does not crash.                               *)
C11_FirstMatchWins ==
    \A p \in Procs :
        is_some(hist[p].key) =>
            /\ pc[p] # "panicked"
            /\ chosen[p] = first_named(runners[p], unwrap(hist[p].key))

\* Either configuration source is there and is not a TOML document.
BadConfig ==
    \/ defaultsFile.kind \in {"garbage", "truncated", "binary"}
    \/ userFile.kind \in {"garbage", "truncated", "binary"}

\* The panic messages of load_runners and generate_default_config.
ConfigDiagnostics ==
    { "No default config could be created, panicing",
      "called Result::unwrap() on an Err value",
      "Could not parse default config", "Could not parse user config" }

\* The load of this run returned and main went past its branch into
\* select_new_runner, or further.
Decided(p) == happened(p, "load") /\ pc[p] \notin {"branch", "load_runners"}

(* C12 as stated: whenever a configuration source is present and           *)
(* unparsable the run aborts with a diagnostic and executes no runner,     *)
(* whatever the flag and the cache state.                                  *)
C12_BadConfigAlwaysAborts ==
    \A p \in Procs :
        (BadConfig /\ Decided(p)) =>
            /\ pc[p] = "panicked"
            /\ out[p] \cap ConfigDiagnostics # {}
            /\ ~Executed(p)

(* C12, amended: whenever a configuration source is present and            *)
(* unparsable, a run that needs a selection (the flag is set, or the cache *)
(* has no entry for the directory, or its load failed) aborts with a       *)
(* diagnostic before the selector runs and executes no runner; a run       *)
(* without the flag that finds its directory in the cache does not read    *)
(* the configuration and executes the cached runner.                       *)
C12_BadConfigAbortsSelection ==
    \A p \in Procs :
        (BadConfig /\ Decided(p)) =>
            IF force[p] \/ ~Hit(p)
            THEN /\ pc[p] = "panicked"
                 /\ out[p] \cap ConfigDiagnostics # {}
                 /\ ~happened(p, "select")
                 /\ ~Executed(p)
                 /\ chosen[p] = None
            ELSE /\ pc[p] # "panicked"
                 /\ chosen[p] = get(unwrap(hist[p].loaded), cwd[p])

\* A forced run over a cached directory aborted on an unparsable user
\* source.
C12_Witness ==
    \E p \in Procs :
        /\ userFile = Garbage /\ force[p] /\ Hit(p) /\ pc[p] = "panicked"
        /\ "Could not parse user config" \in out[p]

AddFailed(p) == happened(p, "serialize_err") \/ happened(p, "write_err")

(* C13: when serializing or writing the cache fails in add_runner, the     *)
(* failure is printed and the run goes on: it does not panic, the chosen   *)
(* runner (kept in the in-memory cache) is the one executed, and the run   *)
(* can take every step up to its normal end.                               *)
C13_AddFailureContinues ==
    \A p \in Procs :
        AddFailed(p) =>
            /\ out[p] \cap {"Could not serialise new cache data to toml",
                            "Could not write toml to disk"} # {}
            /\ pc[p] \in {"run", "ack", "bye", "done"}
            /\ is_some(chosen[p])
            /\ get(unwrap(cache[p]), cwd[p]) = chosen[p]
            /\ (pc[p] = "run" => ENABLED Run(p))
            /\ (pc[p] = "ack" => ENABLED Ack(p))
            /\ (pc[p] = "bye" => ENABLED Bye(p))
            /\ (pc[p] \in {"ack", "bye", "done"} => Executed(p))
            /\ (pc[p] = "done" => "bye!" \in out[p])

\* A run whose write failed and truncated the file executed its runner and
\* ended.
C13_Witness ==
    \E p \in Procs :
        /\ happened(p, "write_err") /\ cacheFile = Truncated
        /\ pc[p] = "done" /\ happened(p, "spawn_ok")

(* C14: no outcome of the selector crashes the process: a selector that    *)
(* fails is reported as an internal error, and every outcome other than    *)
(* exactly one selected name ends in "no runner selected", with nothing    *)
(* executed and nothing cached.                                            *)
C14_SelectorNeverCrashes ==
    \A p \in Procs :
        happened(p, "select") =>
            /\ pc[p] # "panicked"
            /\ ("internal runquick error :(" \in out[p] => hist[p].key = None)
            /\ (hist[p].key = None =>
                  /\ chosen[p] = None
                  /\ ~Executed(p)
                  /\ ~Wrote(p)
                  /\ (pc[p] \in {"bye", "done"} =>
                        "No Runner Selected" \in out[p]))

(* C17: in a single instance with a usable cache, a successful add         *)
(* rewrites the whole file: from the write on, the mapping in the file is  *)
(* the mapping in memory, which is the mapping loaded with the entry of    *)
(* the current directory inserted or replaced and all others unchanged.    *)
C17_WriteIsWholeMap ==
    \A p \in Procs :
        happened(p, "write_ok") =>
            /\ cache_parse_ok(cacheFile)
            /\ cache_from_str(cacheFile) = unwrap(cache[p])
            /\ unwrap(cache[p])
                 = {e \in unwrap(hist[p].loaded) : e.key # cwd[p]}
                     \cup {Entry(cwd[p], unwrap(chosen[p]))}

\* A write replaced the entry of the directory and kept another one.
C17_Witness ==
    \E p \in Procs :
        /\ happened(p, "write_ok") /\ Hit(p)
        /\ get(unwrap(hist[p].loaded), cwd[p]) # chosen[p]
        /\ Len(cacheFile.body) = 2

\* The run selected a runner while its cache was usable.
SelectedUsable(p) ==
    is_some(hist[p].key) /\ is_some(chosen[p]) /\ Usable(p)

\* The step of add_runner that tried to put the cache on disk.
WriteAttempt(p) ==
    IF happened(p, "serialize_err") THEN "serialize_err"
    ELSE IF happened(p, "write_err") THEN "write_err" ELSE "write_ok"

(* C19: a run selects, writes and executes at most once each; in a run     *)
(* that selected a runner with a usable cache, the insertion and the       *)
(* write attempt come before the command is spawned; and once the command  *)
(* was spawned, nothing (a failed spawn, the acknowledgment, the exit)     *)
(* changes the cache in memory or on disk while the run lasts.             *)
C19_StoreBeforeRun ==
    /\ [](\A p \in Procs :
            LET evs == hist[p].events
            IN  /\ count(evs, "select") <= 1
                /\ count(evs, "insert") <= 1
                /\ count(evs, "serialize_err") + count(evs, "write_ok")
                     + count(evs, "write_err") <= 1
                /\ count(evs, "spawn_ok") + count(evs, "spawn_err") <= 1
                /\ (Executed(p) /\ SelectedUsable(p) =>
                      /\ happened(p, "insert")
                      /\ happened(p, WriteAttempt(p))
                      /\ \A sp \in {"spawn_ok", "spawn_err"} :
                            happened(p, sp) =>
                               /\ index_of(evs, "select") < index_of(evs, "insert")
                               /\ index_of(evs, "insert") < index_of(evs, sp)
                               /\ index_of(evs, WriteAttempt(p))
                                    < index_of(evs, sp)))
    /\ [][\A p \in Procs :
            (Executed(p) /\ pc[p] # "done") =>
                cacheFile' = cacheFile /\ cache'[p] = cache[p]]_vars

\* A run stored its selection, failed to spawn the command, took the
\* acknowledgment and ended with the file as written.
C19_Witness ==
    \E p \in Procs :
        /\ SelectedUsable(p) /\ pc[p] = "done"
        /\ hist[p].events = <<"load", "read_defaults", "read_user", "select",
                               "insert", "write_ok", "spawn_err", "ack">>
        /\ get(cache_from_str(cacheFile), cwd[p]) = chosen[p]

(* C20: a run without the flag that finds its directory in the cache      *)
(* reads neither configuration source, does not create the defaults file   *)
(* when it is absent, writes no file, and executes the runner as cached,   *)
(* whatever the configuration would now resolve to.                        *)
C20_HitTouchesNothing ==
    \A p \in Procs :
        (~force[p] /\ Hit(p)) =>
            /\ ~happened(p, "create_defaults")
            /\ ~happened(p, "read_defaults")
            /\ ~happened(p, "read_user")
            /\ <<defaultsFile, userFile>> = hist[p].conf0
            /\ cacheFile = hist[p].file0
            /\ ~Wrote(p)
            /\ (Stored(p) => chosen[p] = get(unwrap(hist[p].loaded), cwd[p]))
            /\ (pc[p] \in {"ack", "bye", "done"} => Executed(p))

\* With no defaults file at all, a hit executed a cached runner whose cmd
\* no configuration names, and the defaults file is still absent.
C20_Witness ==
    \E p \in Procs :
        /\ ~force[p] /\ Hit(p) /\ pc[p] = "done" /\ happened(p, "spawn_ok")
        /\ defaultsFile = Absent /\ userFile = Absent
        /\ unwrap(chosen[p]).cmd = "runhaskell Main.hs"
        /\ \A i \in 1..Len(BuiltinDefaults) :
              new_from_config(BuiltinDefaults[i]) # unwrap(chosen[p])

----------------------------------------------------------------------------
(* load_runners on bounded configuration sources                           *)

ConfEntries ==
    { MkConf(Some("a"), Some("c1"), None),
      MkConf(Some("a"), Some("c2"), Some(TRUE)),
      MkConf(Some("b"), Some("c1"), Some(FALSE)),
      MkConf(Some("b"), None, None),
      MkConf(None, Some("c2"), None),
      MkConf(None, None, None) }

ConfSeqs(n) == UNION {[1..k -> ConfEntries] : k \in 0..n}

InitMerge ==
    /\ cacheFile = Absent
    /\ defaultsFile \in {Text(None)} \cup {Text(Some(sq)) : sq \in ConfSeqs(MaxDefaults)}
    /\ userFile \in {Absent, Text(None)}
                      \cup {Text(Some(sq)) : sq \in ConfSeqs(MaxUser)}
    /\ pc = [p \in {1} |-> "load_runners"]
    /\ force = [p \in {1} |-> FALSE]
    /\ cwd = [p \in {1} |-> "/proj"]
    /\ cache = [p \in {1} |-> Some({})]
    /\ chosen = [p \in {1} |-> None]
    /\ runners = [p \in {1} |-> <<>>]
    /\ out = [p \in {1} |-> {}]
    /\ hist = [p \in {1} |-> StartHist(cacheFile)]
    /\ prev = [p \in {1} |-> NoPrev]

NextMerge == \E p \in DOMAIN pc : LoadRunners(p)

\* load_runners alone, over every pair of small configuration sources.
SpecMerge == InitMerge /\ [][NextMerge]_vars

\* The runners each source resolves to, as load_runners reads them.
UserRunners ==
    get_runners_from_config(
        IF exists(userFile) THEN Some(config_from_str(userFile)) ELSE None)

DefaultRunners == get_runners_from_config(Some(config_from_str(defaultsFile)))

names(rs) == {rs[i].name : i \in 1..Len(rs)}

\* load_runners has returned its list.
Merged(p) == pc[p] = "skim"

(* C9: for every name x of both a user entry and a default entry, the      *)
(* list load_runners returns holds exactly one runner named x, with the    *)
(* user entry's cmd; the list has no two runners of one name.              *)
C9_MergeDedup ==
    \A p \in Procs :
        Merged(p) =>
            LET R == runners[p]
            IN  /\ \A x \in names(UserRunners) \cap names(DefaultRunners) :
                      /\ Cardinality({i \in 1..Len(R) : R[i].name = x}) = 1
                      /\ \A i \in 1..Len(R) :
                            R[i].name = x =>
                               \E j \in 1..Len(UserRunners) :
                                  /\ UserRunners[j].name = x
                                  /\ UserRunners[j].cmd = R[i].cmd
                /\ \A i, j \in 1..Len(R) : R[i].name = R[j].name => i = j

\* The defaults a rule keeps, given the positions it keeps: in reverse
\* declaration order.
reversed_kept(D, K) ==
    [k \in 1..Cardinality(K) |->
        D[CHOOSE i \in K : Cardinality({j \in K : j > i}) = k - 1]]

(* C10 as stated: the list is the user runners in declared order, then     *)
(* exactly the default runners whose name matches no user runner, in       *)
(* reverse declaration order.                                              *)
C10_AllUnmatchedDefaults ==
    \A p \in Procs :
        Merged(p) =>
            runners[p] = UserRunners \o reversed_kept(DefaultRunners,
                {i \in 1..Len(DefaultRunners) :
                    DefaultRunners[i].name \notin names(UserRunners)})

(* C10, amended: the list is the user runners in declared order, then the  *)
(* default runners whose name matches no user runner and no default        *)
(* declared after them (of defaults sharing a name only the last declared  *)
(* is kept), in reverse declaration order.                                 *)
C10_LastUnmatchedDefaults ==
    \A p \in Procs :
        Merged(p) =>
            runners[p] = UserRunners \o reversed_kept(DefaultRunners,
                {i \in 1..Len(DefaultRunners) :
                    /\ DefaultRunners[i].name \notin names(UserRunners)
                    /\ \A j \in (i + 1)..Len(DefaultRunners) :
                          DefaultRunners[j].name # DefaultRunners[i].name})

\* A user runner first, then two defaults in reverse order, the earlier of
\* two defaults named "a" dropped.
C10_Witness ==
    \E p \in Procs :
        /\ Merged(p)
        /\ Len(UserRunners) = 1
        /\ DefaultRunners = << MkRunner("a", "c1", FALSE), MkRunner("a", "c2", TRUE),
                               MkRunner("b", "c1", FALSE) >>
        /\ runners[p] = << MkRunner("Default Runner Name", "c2", FALSE),
                            MkRunner("b", "c1", FALSE), MkRunner("a", "c2", TRUE) >>

\* The entries of a configuration source, as written in the file.
entries(f) == IF exists(f) /\ is_some(f.body) THEN unwrap(f.body) ELSE <<>>

(* C16: every partial entry resolves to a Runner with the entry's name if  *)
(* present, else "Default Runner Name"; its cmd if present, else           *)
(* "echo 'command not set'"; its quit_fast if present, else false; so a    *)
(* fully specified entry resolves to exactly its three fields. The user    *)
(* entries open the returned list, one runner each, and every returned     *)
(* runner is the resolution of some entry.                                 *)
C16_BlanksGetDefaults ==
    \A p \in Procs :
        Merged(p) =>
            LET resolved(e) ==
                    [name |-> IF e.name = <<>> THEN "Default Runner Name"
                              ELSE e.name[1],
                     cmd |-> IF e.cmd = <<>> THEN "echo 'command not set'"
                             ELSE e.cmd[1],
                     quit_fast |-> IF e.quit_fast = <<>> THEN FALSE
                                   ELSE e.quit_fast[1]]
                U == entries(userFile)
                D == entries(defaultsFile)
            IN  /\ Len(runners[p]) >= Len(U)
                /\ \A i \in 1..Len(U) : runners[p][i] = resolved(U[i])
                /\ \A i \in 1..Len(runners[p]) :
                      \E e \in Range(U) \cup Range(D) :
                         runners[p][i] = resolved(e)
                /\ (D # <<>> =>
                      \E i \in 1..Len(runners[p]) :
                         runners[p][i].name = resolved(D[Len(D)]).name)

\* An entry with nothing set and a fully specified one, resolved.
C16_Witness ==
    \E p \in Procs :
        /\ Merged(p)
        /\ entries(userFile) = << MkConf(None, None, None),
                                  MkConf(Some("a"), Some("c2"), Some(TRUE)) >>
        /\ entries(defaultsFile) = << MkConf(Some("b"), None, None) >>
        /\ runners[p] = << MkRunner("Default Runner Name",
                                    "echo 'command not set'", FALSE),
                            MkRunner("a", "c2", TRUE),
                            MkRunner("b", "echo 'command not set'", FALSE) >>

----------------------------------------------------------------------------
(* Two instances of runfast at once                                        *)

\* The cache files and the directories two concurrent instances start from.
CacheFilesConc ==
    { Absent,
      Text(<<Entry("/proj", StaleHaskell)>>),
      Text(<<Entry("/other", OldRust), Entry("/proj", StaleHaskell)>>) }

DirsConc == {"/proj", "/other"}

InitConc ==
    /\ cacheFile \in CacheFilesConc
    /\ defaultsFile = Text(Some(BuiltinDefaults))
    /\ userFile = Absent
    /\ InitProc({1, 2})
    /\ \A p \in {1, 2} : cwd[p] \in DirsConc

NextConc ==
    \/ \E p \in DOMAIN pc : Load(p)
    \/ \E p \in DOMAIN pc : Branch(p)
    \/ \E p \in DOMAIN pc : LoadRunners(p)
    \/ \E p \in DOMAIN pc : Skim(p)
    \/ \E p \in DOMAIN pc : Store(p)
    \/ \E p \in DOMAIN pc : Run(p)
    \/ \E p \in DOMAIN pc : Ack(p)
    \/ \E p \in DOMAIN pc : Bye(p)

\* Two instances, one run each, interleaved step by step: nothing locks the
\* cache file.
SpecConc == InitConc /\ [][NextConc]_vars

\* Instance p selected a runner with a usable cache, wrote the cache file
\* and is past add_runner.
Saved(p) == Stored(p) /\ Usable(p) /\ happened(p, "write_ok")

(* C15: when two concurrent instances in one directory, both with usable   *)
(* caches, both select a runner and write it, the entry of the directory   *)
(* in the file, once both have written, is the runner of the instance      *)
(* whose write came last.                                                  *)
C15_LastWriterWins ==
    \A p, q \in Procs :
        (p # q /\ cwd[p] = cwd[q] /\ Saved(p) /\ Saved(q)
            /\ hist[q].wroteAt < hist[p].wroteAt) =>
            /\ cache_parse_ok(cacheFile)
            /\ get(cache_from_str(cacheFile), cwd[p]) = chosen[p]

\* Both instances ended, having chosen different runners for the directory;
\* the file holds the choice of the one that wrote second.
C15_Witness ==
    /\ Procs = {1, 2}
    /\ pc[1] = "done" /\ pc[2] = "done"
    /\ cwd[1] = cwd[2] /\ Saved(1) /\ Saved(2)
    /\ chosen[1] # chosen[2]
    /\ hist[2].wroteAt < hist[1].wroteAt
    /\ hist[1].loadedAt < hist[2].wroteAt
    /\ get(cache_from_str(cacheFile), cwd[1]) = chosen[1]

(* C18: an instance writes its load-time snapshot plus the entry of its    *)
(* own directory: after the last write the file is that map, so an entry   *)
(* another instance wrote for another directory between this instance's    *)
(* load and its write (as when both load before either writes) is not in   *)
(* the file any more, unless the snapshot already held it.                 *)
C18_LaterWriterDropsEarlier ==
    \A p, q \in Procs :
        (p # q /\ Saved(p)
            /\ hist[q].wroteAt < hist[p].wroteAt) =>
            /\ cache_parse_ok(cacheFile)
            /\ cache_from_str(cacheFile)
                 = {e \in unwrap(hist[p].loaded) : e.key # cwd[p]}
                     \cup {Entry(cwd[p], unwrap(chosen[p]))}
            /\ (Saved(q) /\ cwd[q] # cwd[p]
                  /\ hist[p].loadedAt < hist[q].wroteAt
                  /\ get(unwrap(hist[p].loaded), cwd[q]) # chosen[q] =>
                    get(cache_from_str(cacheFile), cwd[q]) # chosen[q])

\* From no cache file, two instances in two directories both loaded before
\* either wrote; both wrote, and the file holds the later entry alone.
C18_Witness ==
    /\ Procs = {1, 2}
    /\ pc[1] = "done" /\ pc[2] = "done"
    /\ cwd[1] # cwd[2] /\ Saved(1) /\ Saved(2)
    /\ hist[1].file0 = Absent /\ hist[2].file0 = Absent
    /\ hist[1].loadedAt < hist[2].wroteAt /\ hist[2].loadedAt < hist[2].wroteAt
    /\ hist[2].wroteAt < hist[1].wroteAt
    /\ keys(cache_from_str(cacheFile)) = {cwd[1]}

====
